---- MODULE Spec2Model ----
(***************************************************************************)
(* A model of the core of the rune Emacs-Lisp runtime:                     *)
(*   - the arity check FnArgs::num_of_fill_args and SubrFn::call           *)
(*     (src/src/core/object/func.rs),                                      *)
(*   - the tagged-pointer value representation Gc<T>                       *)
(*     (src/src/core/object/tagged.rs).                                    *)
(* Each part is a state machine of its own (SpecArity, SpecCall, SpecTag)  *)
(* over the variables below; a part leaves the other parts' variables      *)
(* alone.                                                                  *)
(***************************************************************************)
EXTENDS Integers, Sequences, FiniteSets, TLC

VARIABLES
    build,      \* "debug" | "release": overflow checks on or off
    subr,       \* the SubrFn under test: its FnArgs descriptor and its name
    fcnt,       \* num_of_fill_args: the call count of the last application
    fres,       \* num_of_fill_args: its result
    args,       \* SubrFn::call: the caller's rooted argument vector
    args0,      \* SubrFn::call: that vector as it was before the call
    ret,        \* SubrFn::call: what the call returned
    invoked,    \* SubrFn::call: how often the call invoked self.subr
    seen,       \* SubrFn::call: the slice self.subr was invoked with
    heap,       \* the arena: the allocated objects, by address
    val,        \* the tagged word (a Gc<Object>) under test
    src,        \* what val was made from
    view,       \* the last projection of val (Gc<T>::untag)
    conv,       \* the result of the last conversion or test (retag, try_from, nil)
    roots,      \* the collector: the root set, a sequence of tagged words
    marked,     \* the collector: the addresses of the objects whose mark bit is set
    stack,      \* the collector: the explicit trace stack, a Vec<RawObj>
    gcpc,       \* the collector: "idle" | "trace" | "done"
    cycle,      \* the collector: the number of cycles begun
    heap0,      \* the collector: the arena as it was when the cycle began
    freed,      \* the collector: how often each object was released
    pushes,     \* the collector: how often each object was pushed in this cycle
    visits,     \* the collector: how often each object was traced in this cycle
    ustr,       \* upcase: the argument, a sequence of code points
    ures,       \* upcase: the result
    unwind,     \* the runner: "caught" | "abort", what becomes of a panic
    master,     \* the runner: master_count
    rpc,        \* the runner: "idle" | "emacs" | "rune" | "aborted"
    started,    \* the runner: the number of test cases begun
    ebody,      \* the runner: emacs_output of the test case under way
    accE,       \* the runner: the counters of the responses accepted from Emacs
    accR,       \* the runner: the counters of the responses accepted from Rune
    mism,       \* the runner: a response carried a counter other than master_count
    lhs,        \* ==: the left operand, a tagged word
    rhs,        \* ==: the right operand
    eqres,      \* ==: "none" | "true" | "false" | "abort"
    lhash,      \* hash: what the hasher made of the left operand
    rhash,      \* hash: what the hasher made of the right operand
    reader,     \* process_eval_result: the lines on the reader
    consumed,   \* process_eval_result: how many of them were read
    linebuf,    \* process_eval_result: the String line
    perpc,      \* process_eval_result: "idle" | "loop" | "done" | "panic"
    eofreads,   \* process_eval_result: read_line has returned 0 in the loop
    mcount,     \* process_eval_result: the argument master_count
    testfail,   \* process_eval_result: test_fail asserts (Rune) or is empty (Emacs)
    body        \* process_eval_result: the String returned

vars == <<build, subr, fcnt, fres, args, args0, ret, invoked, seen,
          heap, val, src, view, conv,
          roots, marked, stack, gcpc, cycle, heap0, freed, pushes, visits,
          ustr, ures, unwind, master, rpc, started, ebody, accE, accR, mism,
          lhs, rhs, eqres, lhash, rhash,
          reader, consumed, linebuf, perpc, eofreads, mcount, testfail, body>>

-----------------------------------------------------------------------------
(* Bounds of the model.                                                    *)

\* required and optional range over 0..MaxSmall and the values next to u16::MAX
MaxSmall == 2
\* explicit argument vectors have at most MaxArgs elements
MaxArgs == 3

\* the arena holds at most MaxHeap objects
MaxHeap == 1

\* the collected arena holds MaxObjs objects
MaxObjs == 2
\* the collector runs at most MaxCycles cycles
MaxCycles == 2

\* trace_mark is applied on its own while the stack has fewer than MaxStack entries
MaxStack == 3

\* upcase is applied to strings of at most MaxStr characters
MaxStr == 3
\* the runner begins at most MaxCases test cases
MaxCases == 3

\* how many lines the reader of process_eval_result holds before its end of
\* input
MaxLines == 4

(* Program constants.                                                      *)

\* the Garay block '\u{10D40}'..='\u{10D8F}'
GarayFirst == 68928
GarayLast == 69007

\* a machine word, usize or *const u8, is WordBytes bytes (a 64-bit target)
WordBytes == 8
\* from_ptr shifts the address left by 8 bits, one byte, to make room for the tag
TagBytes == 1
\* the sign bit of a byte, and the byte of all ones
SignBit == 128
AllOnes == 255

\* u16::MAX: required, optional and the call count are u16
U16Max == 65535

Builds == {"debug", "release"}

-----------------------------------------------------------------------------
(* Results: Rust's Result<u16>, or a panic unwinding out of the function.  *)

NoResult == [kind |-> "none", val |-> 0, expected |-> 0, actual |-> 0, name |-> ""]

Ok(v) == [kind |-> "ok", val |-> v, expected |-> 0, actual |-> 0, name |-> ""]

\* ArgError::new(expected, actual, name)
ArgError(e, a, n) ==
    [kind |-> "argerror", val |-> 0, expected |-> e, actual |-> a, name |-> n]

\* a panic: in a debug build `attempt to add with overflow`
Panic == [kind |-> "panic", val |-> 0, expected |-> 0, actual |-> 0, name |-> ""]

-----------------------------------------------------------------------------
(* FnArgs::num_of_fill_args                                                *)

\* u16 + u16: a debug build panics on overflow, a release build wraps
AddU16(a, b) == (a + b) % (U16Max + 1)

AddOverflows(a, b) == a + b > U16Max

\* u16::saturating_sub
SaturatingSub(a, b) == IF a >= b THEN a - b ELSE 0

\* as NumOfFillArgs, the error's expected and actual counts exchanged
NumOfFillArgsSwapped(bld, fa, n, name) ==
    IF n < fa.required
    THEN ArgError(n, fa.required, name)
    ELSE IF bld = "debug" /\ AddOverflows(fa.required, fa.optional)
    THEN Panic
    ELSE LET total == AddU16(fa.required, fa.optional)
         IN  IF ~fa.rest /\ n > total
             THEN ArgError(total, n, name)
             ELSE Ok(SaturatingSub(total, n))

\* as NumOfFillArgs, the rest flag not consulted
NumOfFillArgsNoRest(bld, fa, n, name) ==
    IF n < fa.required
    THEN ArgError(fa.required, n, name)
    ELSE IF bld = "debug" /\ AddOverflows(fa.required, fa.optional)
    THEN Panic
    ELSE LET total == AddU16(fa.required, fa.optional)
         IN  IF n > total
             THEN ArgError(total, n, name)
             ELSE Ok(SaturatingSub(total, n))

NumOfFillArgs(bld, fa, n, name) ==
    IF n < fa.required
    THEN ArgError(fa.required, n, name)
    ELSE IF bld = "debug" /\ AddOverflows(fa.required, fa.optional)
    THEN Panic
    ELSE LET total == AddU16(fa.required, fa.optional)
         IN  IF ~fa.rest /\ n > total
             THEN ArgError(total, n, name)
             ELSE Ok(SaturatingSub(total, n))

-----------------------------------------------------------------------------
(* The functions under test.  No constructor of FnArgs, LispFn or SubrFn   *)
(* restricts required and optional beyond their type u16.                  *)

ArgCounts == (0..MaxSmall) \cup {U16Max - 1, U16Max}

Names == {"car", "list"}


\* LispFn::new: the descriptor it builds from required, optional and rest
LispFnNew(required, optional, rest) ==
    [required |-> required, optional |-> optional, rest |-> rest]

\* new_subr, and a SubrFn literal: any name with any descriptor
NewSubr(name, required, optional, rest) ==
    [args |-> [required |-> required, optional |-> optional, rest |-> rest],
     name |-> name]

\* the descriptors and functions the constructors admit: every pair of u16
FnArgsSet == {LispFnNew(r, o, b) : r \in ArgCounts, o \in ArgCounts, b \in BOOLEAN}

SubrFns == {NewSubr(n, a.required, a.optional, a.rest) : n \in Names, a \in FnArgsSet}

\* the call counts num_of_fill_args is applied to
Counts == (0..(2 * MaxSmall + 2)) \cup ((U16Max - 2)..U16Max)

-----------------------------------------------------------------------------
(* The argument vector, a Vec<GcObj>.  A vector is kept run-length encoded *)
(* (a sequence of runs [val, cnt], cnt > 0, adjacent runs of different     *)
(* values) so that vectors longer than u16::MAX are states of the model.   *)

Nil == "nil"

ArgVals == {Nil, "a"}

RECURSIVE VecLen(_)
VecLen(v) == IF v = <<>> THEN 0 ELSE v[1].cnt + VecLen(Tail(v))

\* c times Vec::push(x)
PushN(v, x, c) ==
    IF c = 0 THEN v
    ELSE IF v # <<>> /\ v[Len(v)].val = x
    THEN [v EXCEPT ![Len(v)].cnt = @ + c]
    ELSE Append(v, [val |-> x, cnt |-> c])

RECURSIVE FromSeq(_)
FromSeq(s) ==
    IF s = <<>> THEN <<>> ELSE PushN(FromSeq(SubSeq(s, 1, Len(s) - 1)), s[Len(s)], 1)

\* the vectors a caller passes: up to MaxArgs values, or up to one value
\* followed by a long run of "a"
BulkLens == {0, U16Max - 1, U16Max, U16Max + 1, U16Max + 2}

SeqsUpTo(S, n) == UNION {[1..m -> S] : m \in 0..n}

InputVecs ==
    {FromSeq(s) : s \in SeqsUpTo(ArgVals, MaxArgs)}
    \cup {PushN(FromSeq(s), "a", b) : s \in SeqsUpTo(ArgVals, 1), b \in BulkLens}

-----------------------------------------------------------------------------
(* SubrFn::call                                                            *)

\* args.len() as u16
ArgCnt(v) == VecLen(v) % (U16Max + 1)

\* as FillArgs, the loop running once too often
FillArgsOneMore(v, fill) == PushN(v, Nil, fill + 1)

\* for _ in 0..fill_args { args.push(nil()) }
FillArgs(v, fill) == PushN(v, Nil, fill)

\* what self.subr returns: a value or an error of its own
NativeOutcomes == {"value", "usererror"}

NativeResult(out) == [kind |-> out, val |-> 0, expected |-> 0, actual |-> 0, name |-> ""]

\* the whole of SubrFn::call on the vector v, the native function answering out
SubrCall(bld, fn, v, out) ==
    LET fill == NumOfFillArgs(bld, fn.args, ArgCnt(v), fn.name)
    IN  IF fill.kind = "ok"
        THEN LET filled == FillArgs(v, fill.val)
             IN  [args |-> filled, ret |-> NativeResult(out), invoked |-> 1, seen |-> filled]
        ELSE [args |-> v, ret |-> fill, invoked |-> 0, seen |-> <<>>]

-----------------------------------------------------------------------------
(* Tagged pointers.  A word is the sequence of its WordBytes bytes, the    *)
(* most significant first, so that the shifts by 8 bits of from_ptr and    *)
(* untag_ptr are exact on the full 64 bits.                                *)

\* enum Tag, #[repr(u8)]: a tag's byte is its position in the enum
Tags == <<"Symbol", "Int", "Float", "Cons", "String", "Vec", "Record",
          "HashTable", "SubrFn", "ByteFn">>

TagSet == {Tags[i] : i \in 1..Len(Tags)}

TagByte(t) == (CHOOSE i \in 1..Len(Tags) : Tags[i] = t) - 1

\* Gc::from_ptr: (x << 8) | tag as usize
FromPtr(ptr, t) == SubSeq(ptr, TagBytes + 1, WordBytes) \o <<TagByte(t)>>

\* Gc::tag: transmute(self.ptr.addr() as u8)
TagOf(w) == Tags[w[WordBytes] + 1]

\* ((x as isize) >> 8) as usize: the arithmetic shift fills with the sign
Asr8(w) ==
    <<IF w[1] >= SignBit THEN AllOnes ELSE 0>> \o SubSeq(w, 1, WordBytes - TagBytes)

\* Gc::untag_ptr
UntagPtr(w) == [ptr |-> Asr8(w), tag |-> TagOf(w)]

\* the bytes integers are built from, and the integers under test: the two
\* top bytes and the low byte vary, the bytes between are all equal
ByteVals == {0, 1, SignBit - 1, SignBit, AllOnes}

Ints ==
    {<<b1, b2, f, f, f, f, f, b8>> :
        b1 \in ByteVals, b2 \in ByteVals, f \in {0, AllOnes}, b8 \in {0, AllOnes}}

\* IntoObject for i64: tag_ptr(invalid(self as usize))
IntoObjI64(n) == FromPtr(n, "Int")

NoWord == <<>>

-----------------------------------------------------------------------------
(* Heap objects and the static objects.                                    *)

NoArgs == [required |-> 0, optional |-> 0, rest |-> FALSE]

Payload(k, d, c, a) == [kind |-> k, data |-> d, constants |-> c, args |-> a]

NoPayload == Payload("none", <<>>, <<>>, NoArgs)

\* the statics sym::NIL, sym::TRUE and one SubrFn, at addresses of the image
NilAddr == <<0, 0, 0, 0, 0, 64, 0, 0>>

TrueAddr == <<0, 0, 0, 0, 0, 64, 0, 64>>

SubrAddr == <<0, 0, 0, 0, 0, 64, 1, 0>>

StaticAddrs == {NilAddr, TrueAddr, SubrAddr}

StaticTag(a) == IF a = SubrAddr THEN "SubrFn" ELSE "Symbol"

\* nil() and qtrue(): sym::NIL.into(), sym::TRUE.into()
NilWord == FromPtr(NilAddr, "Symbol")

TrueWord == FromPtr(TrueAddr, "Symbol")

\* the addresses the allocator hands out: aligned, in the user half of the
\* address space (below 2^47)
HeapAddrs ==
    {<<0, 0, h, 0, 0, 0, m, l>> : h \in {0, SignBit - 1}, m \in {1}, l \in {16}}

\* the payloads handed to into_obj, by kind
Payloads ==
    { Payload("Cons", <<>>, <<IntoObjI64(<<0, 0, 0, 0, 0, 0, 0, 1>>), NilWord>>, NoArgs),
      Payload("Float", <<63, 240, 0, 0, 0, 0, 0, 0>>, <<>>, NoArgs),
      Payload("String", <<104, 101, 108, 108, 111>>, <<>>, NoArgs),
      Payload("Vec", <<>>, <<NilWord, TrueWord>>, NoArgs),
      Payload("Record", <<>>, <<NilWord, TrueWord>>, NoArgs),
      Payload("HashTable", <<>>, <<NilWord, TrueWord>>, NoArgs),
      Payload("Symbol", <<102, 111, 111>>, <<>>, NoArgs),
      Payload("ByteFn", <<0, 1, 2>>, <<IntoObjI64(<<0, 0, 0, 0, 0, 0, 0, 1>>)>>, NoArgs),
      Payload("ByteFn", <<0>>, <<>>, [required |-> 1, optional |-> 2, rest |-> TRUE]) }

\* as KindTag, a record tagged as the vector whose layout it shares
KindTagRecordAsVec(k) == IF k = "Record" THEN "Vec" ELSE k

\* the tag each into_obj passes to from_ptr or tag_ptr
KindTag(k) == k

\* into_obj of a heap payload allocated at address a
IntoObjHeap(a, p) == FromPtr(a, KindTag(p.kind))

-----------------------------------------------------------------------------
(* Projections: TaggedPtr::untag for each T of Gc<T>.                      *)

\* the leaf types, named by their tag ("Int" is i64, "Cons" is &Cons, ...)
LeafTypes == TagSet

SumTypes == {"Object", "Number", "List", "Function"}

NumberTags == {"Int", "Float"}

FunctionTags == {"ByteFn", "SubrFn", "Cons", "Symbol"}

NoView == [ty |-> "none", variant |-> "none", ptr |-> NoWord]

View(ty, variant, ptr) == [ty |-> ty, variant |-> variant, ptr |-> ptr]

\* a Gc<ty> holding the word w can exist: the word came from into_obj of that
\* type, from try_from or from a cast_gc! conversion
HasType(w, ty) ==
    CASE ty = "Object" -> TRUE
      [] ty = "Number" -> TagOf(w) \in NumberTags
      [] ty = "List" -> w = NilWord \/ TagOf(w) = "Cons"
      [] ty = "Function" -> TagOf(w) \in FunctionTags
      [] OTHER -> TagOf(w) = ty

\* T::untag(Gc<T>): a match on the tag of untag_ptr.  For an Int the payload
\* is the integer itself; List maps every Symbol tag to Nil; a tag outside
\* Number, List or Function reaches unreachable!().
Untag(w, ty) ==
    LET u == UntagPtr(w)
    IN  CASE ty = "List" /\ u.tag = "Symbol" -> View(ty, "Nil", NoWord)
          [] ty = "List" /\ u.tag \notin {"Symbol", "Cons"} -> View(ty, "unreachable", NoWord)
          [] ty = "Number" /\ u.tag \notin NumberTags -> View(ty, "unreachable", NoWord)
          [] ty = "Function" /\ u.tag \notin FunctionTags -> View(ty, "unreachable", NoWord)
          [] OTHER -> View(ty, u.tag, u.ptr)

-----------------------------------------------------------------------------
(* Conversions.                                                            *)

NoOut == [op |-> "none", kind |-> "none", ty |-> "none", word |-> NoWord,
          expected |-> "none", actual |-> NoWord]

\* a Gc<ty> holding the word w
OutOk(op, ty, w) == [op |-> op, kind |-> "ok", ty |-> ty, word |-> w,
                     expected |-> "none", actual |-> NoWord]

\* TypeError::new(expected, actual)
OutTypeError(op, e, a) == [op |-> op, kind |-> "typeerror", ty |-> "none",
                           word |-> NoWord, expected |-> e, actual |-> a]

\* unimplemented!()
OutPanic(op) == [op |-> op, kind |-> "panic", ty |-> "none", word |-> NoWord,
                 expected |-> "none", actual |-> NoWord]

\* cast_gc!: From<$subtype> for Gc<$supertype> is
\* <$subtype>::tag_ptr(x.get_ptr()).into().  get_ptr and tag_ptr are
\* implemented by the leaf types; Number, List and Function keep the trait's
\* default get_ptr, which is unimplemented!().
Retag(v) ==
    IF v.ty \in LeafTypes
    THEN OutOk("retag", "Object", FromPtr(v.ptr, v.ty))
    ELSE OutPanic("retag")

\* the view types cast_gc! generates a From<view> conversion for
RetagTypes == LeafTypes \cup {"Number", "List", "Function"}

\* as NumberTryFrom, the Float tag forgotten
NumberTryFromIntOnly(w) ==
    IF TagOf(w) = "Int"
    THEN OutOk("try_number", "Number", w)
    ELSE OutTypeError("try_number", "Number", w)

\* TryFrom<Gc<Object>> for Gc<Number>
NumberTryFrom(w) ==
    IF TagOf(w) \in NumberTags
    THEN OutOk("try_number", "Number", w)
    ELSE OutTypeError("try_number", "Number", w)

\* Symbol::nil and Symbol == ConstSymbol: symbols are interned, a symbol is
\* nil when it is the static sym::NIL itself
SymbolNil(ptr) == ptr = NilAddr

\* as ListTryFrom, the guard `if s.nil()` forgotten
ListTryFromAnySymbol(w) ==
    LET o == Untag(w, "Object")
    IN  IF o.variant = "Symbol" \/ o.variant = "Cons"
        THEN OutOk("try_list", "List", w)
        ELSE OutTypeError("try_list", "List", w)

\* TryFrom<Gc<Object>> for Gc<List>
ListTryFrom(w) ==
    LET o == Untag(w, "Object")
    IN  IF (o.variant = "Symbol" /\ SymbolNil(o.ptr)) \/ o.variant = "Cons"
        THEN OutOk("try_list", "List", w)
        ELSE OutTypeError("try_list", "List", w)

\* as FunctionTryFrom, the Symbol tag forgotten
FunctionTryFromNoSymbol(w) ==
    IF TagOf(w) \in {"ByteFn", "SubrFn", "Cons"}
    THEN OutOk("try_function", "Function", w)
    ELSE OutTypeError("try_function", "Func", w)

\* TryFrom<Gc<Object>> for Gc<Function>
FunctionTryFrom(w) ==
    IF TagOf(w) \in {"ByteFn", "SubrFn", "Cons", "Symbol"}
    THEN OutOk("try_function", "Function", w)
    ELSE OutTypeError("try_function", "Func", w)

\* the result of a test: a bool
OutBool(op, b) == [op |-> op, kind |-> IF b THEN "true" ELSE "false", ty |-> "bool",
                   word |-> NoWord, expected |-> "none", actual |-> NoWord]

\* GcObj::nil: self == sym::NIL, by PartialEq<ConstSymbol> for Gc<Object>
GcObjNil(w) ==
    LET o == Untag(w, "Object")
    IN  IF o.variant = "Symbol" THEN SymbolNil(o.ptr) ELSE FALSE

\* the expressions that make nil and those that make t
NilMakers == {"nil()", "false.into_obj", "None.into_obj", "List::empty",
              "RawObj::default", "Gc<Object>::default", "Gc<List>::default"}

TrueMakers == {"qtrue()", "true.into_obj"}

\* as IntoObjBool, the two arms of the match exchanged
IntoObjBoolSwapped(b) ==
    IF b THEN FromPtr(NilAddr, "Symbol") ELSE FromPtr(TrueAddr, "Symbol")

\* IntoObject for bool: from_ptr(&sym::TRUE, Tag::Symbol) or
\* from_ptr(&sym::NIL, Tag::Symbol)
IntoObjBool(b) == IF b THEN FromPtr(TrueAddr, "Symbol") ELSE FromPtr(NilAddr, "Symbol")

\* List::empty
ListEmpty == FromPtr(NilAddr, "Symbol")

\* the word each of the makers evaluates to
MakeConst(m) ==
    CASE m = "nil()" -> NilWord
      [] m = "qtrue()" -> TrueWord
      [] m = "false.into_obj" -> IntoObjBool(FALSE)
      [] m = "true.into_obj" -> IntoObjBool(TRUE)
      [] m = "None.into_obj" -> NilWord
      [] m = "List::empty" -> ListEmpty
      [] m = "RawObj::default" -> NilWord
      [] m = "Gc<Object>::default" -> NilWord
      [] m = "Gc<List>::default" -> ListEmpty

-----------------------------------------------------------------------------
(* The collector interface of Gc<Object>, and the mark-sweep collector.    *)
(* An arena is a sequence of [addr, obj]; the tagged values an object      *)
(* directly contains are obj.constants (car and cdr of a cons).            *)

ArenaAddrs(hp) == {hp[i].addr : i \in DOMAIN hp}

\* the tagged values the object at address a directly contains; a static
\* symbol contains none
Children(hp, a) ==
    IF \E i \in DOMAIN hp : hp[i].addr = a
    THEN hp[CHOOSE i \in DOMAIN hp : hp[i].addr = a].obj.constants
    ELSE <<>>

\* Gc<Object>::is_markable
IsMarkable(w) == Untag(w, "Object").variant \notin {"Int", "SubrFn"}

\* x.is_marked() of a heap object or symbol: its mark bit
ObjIsMarked(a, mk) == a \in mk

\* as IsMarked, the mark bit of a cons never found set
IsMarkedConsNever(w, mk) ==
    LET o == Untag(w, "Object")
    IN  IF o.variant \in {"Int", "SubrFn"} THEN TRUE
        ELSE IF o.variant = "Cons" THEN FALSE
        ELSE ObjIsMarked(o.ptr, mk)

\* as IsMarked, the SubrFn arm forgotten: a SubrFn asked for a mark bit
IsMarkedIntOnly(w, mk) ==
    LET o == Untag(w, "Object")
    IN  IF o.variant = "Int" THEN TRUE ELSE ObjIsMarked(o.ptr, mk)

\* Gc<Object>::is_marked
IsMarked(w, mk) ==
    LET o == Untag(w, "Object")
    IN  IF o.variant \in {"Int", "SubrFn"} THEN TRUE ELSE ObjIsMarked(o.ptr, mk)

\* x.mark(): set the mark bit
ObjMark(a, mk, st) == [marked |-> mk \cup {a}, stack |-> st]

\* x.trace(stack): set the mark bit and push every directly contained value
ObjTrace(a, hp, mk, st) == [marked |-> mk \cup {a}, stack |-> st \o Children(hp, a)]

\* as TraceMark, a cons marked but not traced
TraceMarkConsMarkOnly(w, hp, mk, st) ==
    LET o == Untag(w, "Object")
    IN  CASE o.variant \in {"Int", "SubrFn"} -> [marked |-> mk, stack |-> st]
          [] o.variant \in {"Float", "String", "Cons"} -> ObjMark(o.ptr, mk, st)
          [] OTHER -> ObjTrace(o.ptr, hp, mk, st)

\* as TraceMark, the arm of Float empty
TraceMarkFloatUnmarked(w, hp, mk, st) ==
    LET o == Untag(w, "Object")
    IN  CASE o.variant \in {"Int", "SubrFn", "Float"} -> [marked |-> mk, stack |-> st]
          [] o.variant \in {"String"} -> ObjMark(o.ptr, mk, st)
          [] OTHER -> ObjTrace(o.ptr, hp, mk, st)

\* Gc<Object>::trace_mark
TraceMark(w, hp, mk, st) ==
    LET o == Untag(w, "Object")
    IN  CASE o.variant \in {"Int", "SubrFn"} -> [marked |-> mk, stack |-> st]
          [] o.variant \in {"Float", "String"} -> ObjMark(o.ptr, mk, st)
          [] OTHER -> ObjTrace(o.ptr, hp, mk, st)

\* the arenas under collection: MaxObjs objects, each a cons or a float; the
\* car of a cons is an integer or an object, its cdr is nil or an object
GcKinds == {"Cons", "Float"}

ObjIds == 1..MaxObjs

GcAddr(i) == <<0, 0, 0, 0, 0, 0, i, 16>>

GcAddrs == {GcAddr(i) : i \in ObjIds}

IntOne == IntoObjI64(<<0, 0, 0, 0, 0, 0, 0, 1>>)

ObjWord(ks, i) == FromPtr(GcAddr(i), ks[i])

Target(ks, j, other) == IF j = 0 THEN other ELSE ObjWord(ks, j)

GraphOf(ks, cars, cdrs) ==
    [i \in ObjIds |->
        [addr |-> GcAddr(i),
         obj |-> IF ks[i] = "Cons"
                 THEN Payload("Cons", <<>>,
                              <<Target(ks, cars[i], IntOne), Target(ks, cdrs[i], NilWord)>>,
                              NoArgs)
                 ELSE Payload("Float", <<63, 240, 0, 0, 0, 0, 0, 0>>, <<>>, NoArgs)]]

\* the root sets: by object number, 0 for an integer
RootShapes == {<<>>, <<1>>, <<1, 1>>, <<0, 1>>, <<2, 1>>}

\* an arena and a root set into it
Worlds ==
    {[heap |-> GraphOf(ks, cars, cdrs),
      roots |-> [i \in DOMAIN rs |-> Target(ks, rs[i], IntOne)]] :
        ks \in [ObjIds -> GcKinds], cars \in [ObjIds -> 0..MaxObjs],
        cdrs \in [ObjIds -> 0..MaxObjs], rs \in RootShapes}

\* the number of entries of s that refer to the heap object at a
CountIn(s, a) ==
    Cardinality({i \in DOMAIN s : IsMarkable(s[i]) /\ UntagPtr(s[i]).ptr = a})

\* the counters of pushes and visits stop at CountCap
CountCap == 2 * MaxObjs + 4

Capped(n) == IF n < CountCap THEN n ELSE CountCap

NoCounts == [a \in GcAddrs |-> 0]

-----------------------------------------------------------------------------
(* upcase (src/src/casefiddle.rs).  A string is the sequence of the code   *)
(* points of its characters.                                               *)

IsGaray(c) == GarayFirst <= c /\ c <= GarayLast

\* char::to_uppercase: a maps to A, sharp s to SS, the Garay small letter
\* U+10D70 to the capital U+10D50; the other characters under test map to
\* themselves
ToUppercase(c) ==
    CASE c = 97 -> <<65>>
      [] c = 223 -> <<83, 83>>
      [] c = 68976 -> <<68944>>
      [] OTHER -> <<c>>

\* as UpcaseChar, without the arm for the Garay block
UpcaseCharNoGaray(c) == ToUppercase(c)

\* the body of the loop: what one character adds to result
UpcaseChar(c) == IF IsGaray(c) THEN <<c>> ELSE ToUppercase(c)

RECURSIVE UpcaseChars(_)
UpcaseChars(s) ==
    IF s = <<>> THEN <<>> ELSE UpcaseChar(Head(s)) \o UpcaseChars(Tail(s))

\* str::replace(c, r) for a pattern of one character
RECURSIVE Replace(_, _, _)
Replace(s, c, r) ==
    IF s = <<>> THEN <<>>
    ELSE (IF Head(s) = c THEN r ELSE <<Head(s)>>) \o Replace(Tail(s), c, r)

\* upcase: result.replace('\\', "\\\\").replace('"', "\\\"")
Upcase(s) == Replace(Replace(UpcaseChars(s), 92, <<92, 92>>), 34, <<92, 34>>)

\* the characters under test: a, sharp s, backslash, double quote, the first
\* character of the Garay block, a small letter of it, its last character and
\* the character after it
CaseChars == {97, 223, 92, 34, GarayFirst, 68976, GarayLast, GarayLast + 1}

Strings == SeqsUpTo(CaseChars, MaxStr)

-----------------------------------------------------------------------------
(* The differential-testing runner (src/elprop/src/bin/runner.rs).         *)

\* a panic inside the closure given to TestRunner::run unwinds into the test
\* runner, which reports the case as failed and goes on, or aborts the
\* process when panics abort
Unwinds == {"caught", "abort"}

Bodies == {"1", "2"}

\* the first line of a response: a START line with a counter, the text of an
\* error, or anything else
FirstLines ==
    {[kind |-> "start", count |-> c] : c \in 0..MaxCases}
    \cup {[kind |-> "error", count |-> 0], [kind |-> "junk", count |-> 0]}

Frames == [line : FirstLines, body : Bodies]

EvalOk(b) == [kind |-> "ok", why |-> "", body |-> b]

EvalPanic(why) == [kind |-> "panic", why |-> why, body |-> ""]

\* process_eval_result(name, master_count, reader, test_fail) on the response
\* f; failOnError is Rune's test_fail, which asserts the line is no error
ProcessEvalResult(mc, f, failOnError) ==
    IF failOnError /\ f.line.kind = "error" THEN EvalPanic("error")
    ELSE IF f.line.kind # "start" THEN EvalPanic("unwrap")
    ELSE IF f.line.count # mc THEN EvalPanic("count")
    ELSE EvalOk(f.body)

\* where the runner is after a panic in a test case
AfterPanic(u) == IF u = "caught" THEN "idle" ELSE "aborted"

-----------------------------------------------------------------------------
(* Equality and hashing of tagged values.                                  *)

\* SubrFn statics beside SubrAddr
SubrAddr2 == <<0, 0, 0, 0, 0, 64, 1, 32>>

SubrAddr3 == <<0, 0, 0, 0, 0, 64, 1, 96>>

SubrStatics == {SubrAddr, SubrAddr2, SubrAddr3}

\* the SubrFn at a static address: its function pointer subr, and its arity
\* and name.  Two statics share a function, two share name and arity.
SubrAt(a) ==
    CASE a = SubrAddr -> [subr |-> "car_fn", fn |-> NewSubr("car", 1, 0, FALSE)]
      [] a = SubrAddr2 -> [subr |-> "car_fn", fn |-> NewSubr("list", 0, 0, TRUE)]
      [] OTHER -> [subr |-> "cdr_fn", fn |-> NewSubr("car", 1, 0, FALSE)]

\* the object at address a of the arena hp
ObjAt(hp, a) ==
    IF \E i \in DOMAIN hp : hp[i].addr = a
    THEN hp[CHOOSE i \in DOMAIN hp : hp[i].addr = a].obj
    ELSE NoPayload

\* as SubrFnEq, the names compared
SubrFnEqByName(l, r) == l.fn.name = r.fn.name

\* PartialEq for SubrFn: self.subr as *const BuiltInFn == other.subr as ...
SubrFnEq(l, r) == l.subr = r.subr

\* an IEEE-754 double, most significant byte first: a NaN, a zero
IsNaN(d) ==
    /\ d[1] % SignBit = SignBit - 1
    /\ d[2] >= 240
    /\ (d[2] % 16 # 0 \/ \E i \in 3..WordBytes : d[i] # 0)

IsZero(d) == d[1] % SignBit = 0 /\ \A i \in 2..WordBytes : d[i] = 0

\* == on two floats: by value, a NaN equal to nothing, the zeros equal
LispFloatEq(d, e) == ~IsNaN(d) /\ ~IsNaN(e) /\ (d = e \/ (IsZero(d) /\ IsZero(e)))

\* == on two strings: byte by byte
LispStringEq(d, e) == d = e

\* == on two symbols: symbols are interned, one object per name
SymbolEq(p, q) == p = q

\* == on two conses, on two vectors: the same object
ConsEq(p, q) == p = q

LispVecEq(p, q) == p = q

EqBool(b) == IF b THEN "true" ELSE "false"

\* PartialEq for Object: a match on the pair of variants; todo!() aborts
ObjectEq(l, r, hp) ==
    IF l.variant # r.variant THEN "false"
    ELSE CASE l.variant = "Int" -> EqBool(l.ptr = r.ptr)
           [] l.variant = "Float" ->
                EqBool(LispFloatEq(ObjAt(hp, l.ptr).data, ObjAt(hp, r.ptr).data))
           [] l.variant = "Symbol" -> EqBool(SymbolEq(l.ptr, r.ptr))
           [] l.variant = "Cons" -> EqBool(ConsEq(l.ptr, r.ptr))
           [] l.variant = "Vec" -> EqBool(LispVecEq(l.ptr, r.ptr))
           [] l.variant = "String" ->
                EqBool(LispStringEq(ObjAt(hp, l.ptr).data, ObjAt(hp, r.ptr).data))
           [] l.variant = "SubrFn" -> EqBool(SubrFnEq(SubrAt(l.ptr), SubrAt(r.ptr)))
           [] OTHER -> "abort"

\* PartialEq for Gc<T>: self.as_obj().untag() == other.as_obj().untag()
GcEq(a, b, hp) == ObjectEq(Untag(a, "Object"), Untag(b, "Object"), hp)

NoHash == <<>>

\* a Hasher: the bytes written are folded into a 16-bit state
RECURSIVE HasherWrite(_, _)
HasherWrite(h, bytes) ==
    IF bytes = <<>> THEN h
    ELSE HasherWrite((h * 31 + Head(bytes)) % (U16Max + 1), Tail(bytes))

\* Hash for Gc<T>: self.ptr.hash(state), the raw word written to the hasher
GcHash(w) == <<HasherWrite(0, w)>>

\* the objects of the arena under comparison: the payloads of into_obj, and
\* two more floats and one more string
EqPayloads ==
    Payloads \cup
    { Payload("Float", <<64, 0, 0, 0, 0, 0, 0, 0>>, <<>>, NoArgs),
      Payload("Float", <<127, 248, 0, 0, 0, 0, 0, 0>>, <<>>, NoArgs),
      Payload("String", <<104, 105>>, <<>>, NoArgs) }

EqAddr1 == <<0, 0, 0, 0, 0, 0, 1, 16>>

EqAddr2 == <<0, 0, SignBit - 1, 0, 0, 0, 1, 16>>

\* an arena of two objects
EqHeaps ==
    {<<[addr |-> EqAddr1, obj |-> p], [addr |-> EqAddr2, obj |-> q]>> :
        p \in EqPayloads, q \in EqPayloads}

\* the values compared: integers, symbols, SubrFns and the objects of hp
EqVals(hp) ==
    {IntoObjI64(<<0, 0, 0, 0, 0, 0, 0, 0>>), IntOne, NilWord, TrueWord}
    \cup {FromPtr(a, "SubrFn") : a \in SubrStatics}
    \cup {IntoObjHeap(hp[i].addr, hp[i].obj) : i \in DOMAIN hp}

-----------------------------------------------------------------------------
(* process_eval_result, line by line.  A string is the sequence of its     *)
(* characters; the text of a tag or of the prefix "Error: " is one         *)
(* character of the model, "nl" is the newline.                            *)

\* START_TAG, and END_TAG = "\n;; ELPROP_END\n"
StartTag == <<"START">>

EndTag == <<"nl", "END", "nl">>

Digits == {"0", "1"}

DigitVal(c) == IF c = "0" THEN 0 ELSE 1

Whitespace == {" ", "nl"}

StartLine(c) == <<"START", c, "nl">>

EndLine == <<"END", "nl">>

\* the lines a process writes: the tags, lines of a body, an error message
Lines ==
    {StartLine(c) : c \in Digits}
    \cup {EndLine, <<"x", "nl">>, <<"nl">>, <<"Error", "x", "nl">>}

Readers == SeqsUpTo(Lines, MaxLines)

\* str::starts_with, str::ends_with
StartsWith(s, t) == Len(s) >= Len(t) /\ SubSeq(s, 1, Len(t)) = t

EndsWith(s, t) == Len(s) >= Len(t) /\ SubSeq(s, Len(s) - Len(t) + 1, Len(s)) = t

\* str::strip_prefix, str::strip_suffix, where the prefix or suffix is there
StripPrefix(s, t) == SubSeq(s, Len(t) + 1, Len(s))

StripSuffix(s, t) == SubSeq(s, 1, Len(s) - Len(t))

\* str::trim
RECURSIVE TrimStart(_)
TrimStart(s) ==
    IF s # <<>> /\ Head(s) \in Whitespace THEN TrimStart(Tail(s)) ELSE s

RECURSIVE TrimEnd(_)
TrimEnd(s) ==
    IF s # <<>> /\ s[Len(s)] \in Whitespace
    THEN TrimEnd(SubSeq(s, 1, Len(s) - 1)) ELSE s

Trim(s) == TrimEnd(TrimStart(s))

\* reader.read_line(&mut line): the next line is appended to the buffer; at
\* the end of input nothing is appended and 0 is returned
ReadLine(rd, pos, buf) ==
    IF pos < Len(rd)
    THEN [n |-> Len(rd[pos + 1]), buf |-> buf \o rd[pos + 1], pos |-> pos + 1]
    ELSE [n |-> 0, buf |-> buf, pos |-> pos]

\* Rune's test_fail: assert!(!(x.contains("\nError: ") || x.starts_with("Error: ")))
TestFailPanics(tf, s) == tf /\ StartsWith(s, <<"Error">>)

\* line.strip_prefix(START_TAG).unwrap().trim().parse::<usize>().unwrap():
\* the count, or "panic" where an unwrap fails
ParseCount(s) ==
    IF ~StartsWith(s, StartTag) THEN "panic"
    ELSE LET t == Trim(StripPrefix(s, StartTag))
         IN  IF Len(t) = 1 /\ t[1] \in Digits THEN t[1] ELSE "panic"

-----------------------------------------------------------------------------
(* The state machines.                                                     *)

ArityVars == <<fcnt, fres>>

CallVars == <<args, args0, ret, invoked, seen>>

TagVars == <<heap, val, src, view, conv>>

GcVars == <<roots, marked, stack, gcpc, cycle, heap0, freed, pushes, visits>>

CaseVars == <<ustr, ures>>

RunVars == <<unwind, master, rpc, started, ebody, accE, accR, mism>>

EqVars == <<lhs, rhs, eqres, lhash, rhash>>

PerVars == <<reader, consumed, linebuf, perpc, eofreads, mcount, testfail, body>>

InitFn ==
    /\ build \in Builds
    /\ subr \in SubrFns

InitArity ==
    /\ fcnt = 0
    /\ fres = NoResult

InitCall ==
    /\ args = <<>>
    /\ args0 = <<>>
    /\ ret = NoResult
    /\ invoked = 0
    /\ seen = <<>>

\* upcase not applied
NoStr == <<0>>

InitCaseIdle ==
    /\ ustr = <<>>
    /\ ures = NoStr

\* the runner not started
InitRunIdle ==
    /\ unwind = "abort"
    /\ master = 0
    /\ rpc = "idle"
    /\ started = 0
    /\ ebody = ""
    /\ accE = <<>>
    /\ accR = <<>>
    /\ mism = FALSE

\* nothing compared, nothing hashed
InitEqIdle ==
    /\ lhs = NoWord
    /\ rhs = NoWord
    /\ eqres = "none"
    /\ lhash = NoHash
    /\ rhash = NoHash

\* process_eval_result has not returned
NoBody == <<"none">>

\* process_eval_result not called
InitPerIdle ==
    /\ reader = <<>>
    /\ consumed = 0
    /\ linebuf = <<>>
    /\ perpc = "idle"
    /\ eofreads = FALSE
    /\ mcount = 0
    /\ testfail = FALSE
    /\ body = NoBody

NoSrc == [kind |-> "none", int |-> NoWord, ptr |-> NoWord,
          payload |-> NoPayload]

InitTag ==
    /\ heap = <<>>
    /\ val = NoWord
    /\ src = NoSrc
    /\ view = NoView
    /\ conv = NoOut

\* the tagged-pointer machine does not consult the function under test
InitFnIdle ==
    /\ build = "release"
    /\ subr = [args |-> NoArgs, name |-> "car"]

\* no collection in progress, nothing rooted
InitGcIdle ==
    /\ roots = <<>>
    /\ marked = {}
    /\ stack = <<>>
    /\ gcpc = "idle"
    /\ cycle = 0
    /\ heap0 = <<>>
    /\ freed = <<>>
    /\ pushes = <<>>
    /\ visits = <<>>

Init == InitEqIdle /\ InitPerIdle /\ InitFn /\ InitArity /\ InitCall /\ InitCaseIdle /\ InitRunIdle /\ InitTag /\ InitGcIdle

InitTagged == InitEqIdle /\ InitPerIdle /\ InitFnIdle /\ InitArity /\ InitCall /\ InitCaseIdle /\ InitRunIdle /\ InitTag /\ InitGcIdle

\* an arena with its roots; the mark bits are clear, or left set by an
\* earlier cycle
InitGc ==
    /\ InitEqIdle /\ InitPerIdle /\ InitFnIdle /\ InitArity /\ InitCall /\ InitCaseIdle /\ InitRunIdle
    /\ val = NoWord /\ src = NoSrc /\ view = NoView /\ conv = NoOut
    /\ \E w \in Worlds : heap = w.heap /\ roots = w.roots
    /\ marked \in {{}, GcAddrs}
    /\ stack = <<>>
    /\ gcpc = "idle"
    /\ cycle = 0
    /\ heap0 = heap
    /\ freed = NoCounts
    /\ pushes = NoCounts
    /\ visits = NoCounts

\* subr.args.num_of_fill_args(n, subr.name)
Fill(n) ==
    /\ fcnt' = n
    /\ fres' = NumOfFillArgs(build, subr.args, n, subr.name)
    /\ UNCHANGED <<EqVars, PerVars, GcVars, CaseVars, RunVars, build, subr, CallVars, TagVars>>

\* subr.call(v, env, cx)
Call(v, out) ==
    LET r == SubrCall(build, subr, v, out)
    IN  /\ args0' = v
        /\ args' = r.args
        /\ ret' = r.ret
        /\ invoked' = r.invoked
        /\ seen' = r.seen
        /\ UNCHANGED <<EqVars, PerVars, GcVars, CaseVars, RunVars, build, subr, ArityVars, TagVars>>

\* n.into_obj(block) for an i64 n
IntIntoObj(n) ==
    /\ val' = IntoObjI64(n)
    /\ src' = [NoSrc EXCEPT !.kind = "int", !.int = n]
    /\ view' = NoView
    /\ conv' = NoOut
    /\ UNCHANGED <<EqVars, PerVars, GcVars, CaseVars, RunVars, build, subr, ArityVars, CallVars, heap>>

\* p.into_obj(block) for a heap payload p: alloc_obj stores p at a fresh
\* address a of the arena, from_ptr tags the address
HeapIntoObj(a, p) ==
    /\ Len(heap) < MaxHeap
    /\ \A i \in 1..Len(heap) : heap[i].addr # a
    /\ heap' = Append(heap, [addr |-> a, obj |-> p])
    /\ val' = IntoObjHeap(a, p)
    /\ src' = [NoSrc EXCEPT !.kind = "heap", !.ptr = a, !.payload = p]
    /\ view' = NoView
    /\ conv' = NoOut
    /\ UNCHANGED <<EqVars, PerVars, GcVars, CaseVars, RunVars, build, subr, ArityVars, CallVars>>

\* a static made a Gc<Object>: nil(), qtrue(), SubrFn::gc_from_raw_ptr
StaticIntoObj(a) ==
    /\ val' = FromPtr(a, StaticTag(a))
    /\ src' = [NoSrc EXCEPT !.kind = "static", !.ptr = a]
    /\ view' = NoView
    /\ conv' = NoOut
    /\ UNCHANGED <<EqVars, PerVars, GcVars, CaseVars, RunVars, build, subr, ArityVars, CallVars, heap>>

\* val, as a Gc<ty>, projected: Gc<ty>::untag
Project(ty) ==
    /\ val # NoWord
    /\ HasType(val, ty)
    /\ view' = Untag(val, ty)
    /\ conv' = NoOut
    /\ UNCHANGED <<EqVars, PerVars, GcVars, CaseVars, RunVars, build, subr, ArityVars, CallVars, heap, val, src>>

\* the view converted back to a tagged word: Gc::from(view)
RetagView ==
    /\ view.ty \in RetagTypes
    /\ conv' = Retag(view)
    /\ UNCHANGED <<EqVars, PerVars, GcVars, CaseVars, RunVars, build, subr, ArityVars, CallVars, heap, val, src, view>>

\* Gc::<Number>::try_from(val)
TryNumber ==
    /\ val # NoWord
    /\ conv' = NumberTryFrom(val)
    /\ view' = NoView
    /\ UNCHANGED <<EqVars, PerVars, GcVars, CaseVars, RunVars, build, subr, ArityVars, CallVars, heap, val, src>>

\* Gc::<List>::try_from(val)
TryList ==
    /\ val # NoWord
    /\ conv' = ListTryFrom(val)
    /\ view' = NoView
    /\ UNCHANGED <<EqVars, PerVars, GcVars, CaseVars, RunVars, build, subr, ArityVars, CallVars, heap, val, src>>

\* Gc::<Function>::try_from(val)
TryFunction ==
    /\ val # NoWord
    /\ conv' = FunctionTryFrom(val)
    /\ view' = NoView
    /\ UNCHANGED <<EqVars, PerVars, GcVars, CaseVars, RunVars, build, subr, ArityVars, CallVars, heap, val, src>>

\* the Gc<Number>, Gc<List> or Gc<Function> a try_from returned, projected
ProjectConv ==
    /\ conv.kind = "ok"
    /\ conv.op \in {"try_number", "try_list", "try_function"}
    /\ view' = Untag(conv.word, conv.ty)
    /\ UNCHANGED <<EqVars, PerVars, GcVars, CaseVars, RunVars, build, subr, ArityVars, CallVars, heap, val, src, conv>>

\* one of the expressions for nil or t evaluated
ConstIntoObj(m) ==
    /\ val' = MakeConst(m)
    /\ src' = [NoSrc EXCEPT !.kind = m]
    /\ view' = NoView
    /\ conv' = NoOut
    /\ UNCHANGED <<EqVars, PerVars, GcVars, CaseVars, RunVars, build, subr, ArityVars, CallVars, heap>>

\* val.nil()
TestNil ==
    /\ val # NoWord
    /\ conv' = OutBool("nil", GcObjNil(val))
    /\ view' = NoView
    /\ UNCHANGED <<EqVars, PerVars, GcVars, CaseVars, RunVars, build, subr, ArityVars, CallVars, heap, val, src>>

\* the values the collector interface is applied to: integers, one of them
\* equal to the address of an object, the static SubrFn, nil, t and the
\* objects of the arena
MarkVals(hp) ==
    {IntOne, IntoObjI64(GcAddr(1)), FromPtr(SubrAddr, "SubrFn"), NilWord, TrueWord}
    \cup {FromPtr(hp[i].addr, hp[i].obj.kind) : i \in DOMAIN hp}

\* an arena, any value, the mark bits clear or set, a stack empty or not
InitMark ==
    /\ InitEqIdle /\ InitPerIdle /\ InitFnIdle /\ InitArity /\ InitCall /\ InitCaseIdle /\ InitRunIdle
    /\ \E w \in Worlds : heap = w.heap /\ w.roots = <<>>
    /\ val \in MarkVals(heap)
    /\ src = NoSrc /\ view = NoView /\ conv = NoOut
    /\ roots = <<>>
    /\ marked \in {{}, GcAddrs}
    /\ stack \in {<<>>, <<TrueWord>>}
    /\ gcpc = "idle"
    /\ cycle = 0
    /\ heap0 = heap
    /\ freed = NoCounts
    /\ pushes = NoCounts
    /\ visits = NoCounts

\* collect, steps 1 and 2: clear all mark bits, push every markable root
GcBegin ==
    /\ gcpc \in {"idle", "done"}
    /\ cycle < MaxCycles
    /\ cycle' = cycle + 1
    /\ marked' = {}
    /\ stack' = SelectSeq(roots, IsMarkable)
    /\ heap0' = heap
    /\ pushes' = [a \in GcAddrs |-> Capped(CountIn(roots, a))]
    /\ visits' = NoCounts
    /\ gcpc' = "trace"
    /\ UNCHANGED <<EqVars, PerVars, CaseVars, RunVars, build, subr, ArityVars, CallVars, TagVars, roots, freed>>

\* collect, step 3: pop a value; skip it if it is marked, trace_mark it if not
GcTraceStep ==
    /\ gcpc = "trace"
    /\ stack # <<>>
    /\ LET w == stack[Len(stack)]
           rest == SubSeq(stack, 1, Len(stack) - 1)
           a == UntagPtr(w).ptr
       IN  IF IsMarked(w, marked)
           THEN /\ stack' = rest
                /\ UNCHANGED <<marked, pushes, visits>>
           ELSE LET r == TraceMark(w, heap, marked, rest)
                    new == SubSeq(r.stack, Len(rest) + 1, Len(r.stack))
                IN  /\ stack' = r.stack
                    /\ marked' = r.marked
                    /\ pushes' = [b \in GcAddrs |-> Capped(pushes[b] + CountIn(new, b))]
                    /\ visits' = [b \in GcAddrs |->
                                     IF b = a THEN Capped(visits[b] + 1) ELSE visits[b]]
    /\ UNCHANGED <<EqVars, PerVars, CaseVars, RunVars, build, subr, ArityVars, CallVars, TagVars, roots, gcpc, cycle,
                   heap0, freed>>

\* collect, step 4: release every object of the arena whose mark bit is clear
GcSweep ==
    /\ gcpc = "trace"
    /\ stack = <<>>
    /\ heap' = SelectSeq(heap, LAMBDA e : e.addr \in marked)
    /\ freed' = [a \in GcAddrs |->
                    IF a \in ArenaAddrs(heap) /\ a \notin marked
                    THEN freed[a] + 1 ELSE freed[a]]
    /\ gcpc' = "done"
    /\ UNCHANGED <<EqVars, PerVars, CaseVars, RunVars, build, subr, ArityVars, CallVars, val, src, view, conv,
                   roots, marked, stack, cycle, heap0, pushes, visits>>

\* between two cycles the caller drops its last root
DropRoot ==
    /\ gcpc = "done"
    /\ cycle < MaxCycles
    /\ roots # <<>>
    /\ roots' = SubSeq(roots, 1, Len(roots) - 1)
    /\ gcpc' = "idle"
    /\ UNCHANGED <<EqVars, PerVars, CaseVars, RunVars, build, subr, ArityVars, CallVars, TagVars, marked, stack,
                   cycle, heap0, freed, pushes, visits>>

\* val.is_markable()
TestMarkable ==
    /\ val # NoWord
    /\ conv' = OutBool("is_markable", IsMarkable(val))
    /\ UNCHANGED <<EqVars, PerVars, GcVars, CaseVars, RunVars, build, subr, ArityVars, CallVars, heap, val, src, view>>

\* val.is_marked()
TestMarked ==
    /\ val # NoWord
    /\ conv' = OutBool("is_marked", IsMarked(val, marked))
    /\ UNCHANGED <<EqVars, PerVars, GcVars, CaseVars, RunVars, build, subr, ArityVars, CallVars, heap, val, src, view>>

\* val.trace_mark(&mut stack)
TraceMarkVal ==
    /\ val # NoWord
    /\ Len(stack) < MaxStack
    /\ LET r == TraceMark(val, heap, marked, stack)
       IN  /\ marked' = r.marked
           /\ stack' = r.stack
    /\ conv' = [NoOut EXCEPT !.op = "trace_mark", !.kind = "ok"]
    /\ UNCHANGED <<EqVars, PerVars, CaseVars, RunVars, build, subr, ArityVars, CallVars, heap, val, src, view,
                   roots, gcpc, cycle, heap0, freed, pushes, visits>>

\* a string to upcase
InitCase ==
    /\ InitEqIdle /\ InitPerIdle /\ InitFnIdle /\ InitArity /\ InitCall /\ InitRunIdle /\ InitTag /\ InitGcIdle
    /\ ustr \in Strings
    /\ ures = NoStr

\* upcase(ustr)
DoUpcase ==
    /\ ures = NoStr
    /\ ures' = Upcase(ustr)
    /\ UNCHANGED <<EqVars, PerVars, GcVars, RunVars, build, subr, ArityVars, CallVars, TagVars, ustr>>

\* the runner before its first test case: let master_count = RefCell::new(0)
InitRun ==
    /\ InitEqIdle /\ InitPerIdle /\ InitFnIdle /\ InitArity /\ InitCall /\ InitCaseIdle /\ InitTag /\ InitGcIdle
    /\ unwind \in Unwinds
    /\ master = 0
    /\ rpc = "idle"
    /\ started = 0
    /\ ebody = ""
    /\ accE = <<>>
    /\ accR = <<>>
    /\ mism = FALSE

\* the test runner calls the closure: the test is sent to Emacs and to Rune
StartCase ==
    /\ rpc = "idle"
    /\ started < MaxCases
    /\ started' = started + 1
    /\ rpc' = "emacs"
    /\ UNCHANGED <<EqVars, PerVars, GcVars, CaseVars, build, subr, ArityVars, CallVars, TagVars,
                   unwind, master, ebody, accE, accR, mism>>

\* emacs_output = process_eval_result("Emacs", master_count, reader, |_| {})
ReadEmacs(f) ==
    /\ rpc = "emacs"
    /\ LET r == ProcessEvalResult(master, f, FALSE)
       IN  IF r.kind = "ok"
           THEN /\ ebody' = r.body
                /\ accE' = Append(accE, f.line.count)
                /\ rpc' = "rune"
                /\ mism' = mism
           ELSE /\ rpc' = AfterPanic(unwind)
                /\ mism' = (mism \/ r.why = "count")
                /\ UNCHANGED <<ebody, accE>>
    /\ UNCHANGED <<EqVars, PerVars, GcVars, CaseVars, build, subr, ArityVars, CallVars, TagVars,
                   unwind, master, started, accR>>

\* rune_output = process_eval_result("Rune", master_count, reader, test_fail);
\* master_count += 1; the outputs compared
ReadRune(f) ==
    /\ rpc = "rune"
    /\ LET r == ProcessEvalResult(master, f, TRUE)
       IN  IF r.kind = "ok"
           THEN /\ accR' = Append(accR, f.line.count)
                /\ master' = master + 1
                /\ rpc' = "idle"
                /\ mism' = mism
           ELSE /\ rpc' = AfterPanic(unwind)
                /\ mism' = (mism \/ r.why = "count")
                /\ UNCHANGED <<accR, master>>
    /\ ebody' = ""
    /\ UNCHANGED <<EqVars, PerVars, GcVars, CaseVars, build, subr, ArityVars, CallVars, TagVars,
                   unwind, started, accE>>

NextArity == \E n \in Counts : Fill(n)

NextCall == \E v \in InputVecs, out \in NativeOutcomes : Call(v, out)

NextTag ==
    \/ \E n \in Ints : IntIntoObj(n)
    \/ \E a \in HeapAddrs, p \in Payloads : HeapIntoObj(a, p)
    \/ \E a \in StaticAddrs : StaticIntoObj(a)
    \/ \E ty \in LeafTypes \cup SumTypes : Project(ty)
    \/ RetagView
    \/ TryNumber
    \/ TryList
    \/ TryFunction
    \/ ProjectConv
    \/ \E m \in NilMakers \cup TrueMakers : ConstIntoObj(m)
    \/ TestNil

SpecArity == Init /\ [][NextArity]_vars

SpecCall == Init /\ [][NextCall]_vars

SpecTag == InitTagged /\ [][NextTag]_vars

NextGc ==
    \/ GcBegin
    \/ GcTraceStep
    \/ GcSweep
    \/ DropRoot

SpecGc == InitGc /\ [][NextGc]_vars

NextMark ==
    \/ TestMarkable
    \/ TestMarked
    \/ TraceMarkVal

SpecMark == InitMark /\ [][NextMark]_vars

NextCase == DoUpcase

SpecCase == InitCase /\ [][NextCase]_vars

NextRun ==
    \/ StartCase
    \/ \E f \in Frames : ReadEmacs(f)
    \/ \E f \in Frames : ReadRune(f)

SpecRun == InitRun /\ [][NextRun]_vars

\* an arena of two objects, nothing compared yet
InitEq ==
    /\ InitPerIdle /\ InitFnIdle /\ InitArity /\ InitCall /\ InitCaseIdle /\ InitRunIdle
    /\ InitGcIdle /\ InitEqIdle
    /\ heap \in EqHeaps
    /\ val = NoWord /\ src = NoSrc /\ view = NoView /\ conv = NoOut

\* a == b for two Gc<T> of the arena
Compare(a, b) ==
    /\ lhs = NoWord
    /\ lhs' = a
    /\ rhs' = b
    /\ eqres' = GcEq(a, b, heap)
    /\ lhash' = NoHash
    /\ rhash' = NoHash
    /\ UNCHANGED <<PerVars, GcVars, CaseVars, RunVars, build, subr, ArityVars, CallVars,
                   TagVars>>

\* the two operands hashed, each with a fresh hasher
HashBoth ==
    /\ lhs # NoWord
    /\ lhash = NoHash
    /\ lhash' = GcHash(lhs)
    /\ rhash' = GcHash(rhs)
    /\ UNCHANGED <<PerVars, GcVars, CaseVars, RunVars, build, subr, ArityVars, CallVars,
                   TagVars, lhs, rhs, eqres>>

NextEq ==
    \/ \E a \in EqVals(heap), b \in EqVals(heap) : Compare(a, b)
    \/ HashBoth

SpecEq == InitEq /\ [][NextEq]_vars

\* process_eval_result called on a reader holding any lines
InitPer ==
    /\ InitEqIdle /\ InitFnIdle /\ InitArity /\ InitCall /\ InitCaseIdle /\ InitRunIdle
    /\ InitTag /\ InitGcIdle
    /\ reader \in Readers
    /\ mcount \in {DigitVal(c) : c \in Digits}
    /\ testfail \in BOOLEAN
    /\ consumed = 0
    /\ linebuf = <<>>
    /\ perpc = "idle"
    /\ eofreads = FALSE
    /\ body = NoBody

\* the first line read, test_fail, the count parsed and compared with
\* master_count, line.clear()
PerReadStart ==
    /\ perpc = "idle"
    /\ LET r == ReadLine(reader, consumed, <<>>)
           c == ParseCount(r.buf)
       IN  /\ consumed' = r.pos
           /\ IF TestFailPanics(testfail, r.buf) \/ c = "panic" \/ DigitVal(c) # mcount
              THEN perpc' = "panic" /\ linebuf' = r.buf
              ELSE perpc' = "loop" /\ linebuf' = <<>>
    /\ UNCHANGED <<EqVars, GcVars, CaseVars, RunVars, build, subr, ArityVars, CallVars,
                   TagVars, reader, eofreads, mcount, testfail, body>>

\* while !line.ends_with(END_TAG) { reader.read_line(&mut line).unwrap(); }:
\* one turn of the loop
PerReadLine ==
    /\ perpc = "loop"
    /\ ~EndsWith(linebuf, EndTag)
    /\ LET r == ReadLine(reader, consumed, linebuf)
       IN  /\ consumed' = r.pos
           /\ linebuf' = r.buf
           /\ eofreads' = (eofreads \/ r.n = 0)
    /\ UNCHANGED <<EqVars, GcVars, CaseVars, RunVars, build, subr, ArityVars, CallVars,
                   TagVars, reader, perpc, mcount, testfail, body>>

\* the loop left: line.strip_suffix(END_TAG).unwrap().trim().to_string()
PerReturn ==
    /\ perpc = "loop"
    /\ EndsWith(linebuf, EndTag)
    /\ body' = Trim(StripSuffix(linebuf, EndTag))
    /\ perpc' = "done"
    /\ UNCHANGED <<EqVars, GcVars, CaseVars, RunVars, build, subr, ArityVars, CallVars,
                   TagVars, reader, consumed, linebuf, eofreads, mcount, testfail>>

NextPer ==
    \/ PerReadStart
    \/ PerReadLine
    \/ PerReturn

SpecPer == InitPer /\ [][NextPer]_vars

\* process_eval_result is sequential code: it keeps stepping while it can
SpecPerLive == SpecPer /\ WF_vars(NextPer)

\* the collector is a sequential loop: it keeps stepping while it can
SpecGcLive == SpecGc /\ WF_vars(GcTraceStep) /\ WF_vars(GcSweep)

-----------------------------------------------------------------------------
(* Properties of num_of_fill_args (SpecArity).                             *)

Required == subr.args.required

Optional == subr.args.optional

Rest == subr.args.rest

\* num_of_fill_args has been applied
Filled == fres.kind # "none"

Max(a, b) == IF a >= b THEN a ELSE b

\* C1: a call count below required fails with ArgError{expected = required,
\* actual = the count, name = the function's name}.
C1_TooFewArgsFail ==
    (Filled /\ fcnt < Required) => fres = ArgError(Required, fcnt, subr.name)

C1_Witness == Filled /\ fcnt < Required /\ fres.kind = "argerror" /\ fcnt > 0

\* C2: a call count above required + optional fails with ArgError{expected =
\* required + optional, actual = the count} when rest is false, and does not
\* fail when rest is true.
C2_TooManyArgsFailUnlessRest ==
    (Filled /\ fcnt > Required + Optional) =>
        IF Rest
        THEN fres.kind = "ok"
        ELSE fres = ArgError(Required + Optional, fcnt, subr.name)

C2_Witness ==
    /\ Filled /\ fcnt > Required + Optional /\ ~Rest
    /\ fres.kind = "argerror" /\ Required + Optional > 0

\* C3: whenever num_of_fill_args succeeds on a count in 0..required+optional+2
\* it returns max(0, required + optional - count).
C3_FillIsTotalMinusCount ==
    (fres.kind = "ok" /\ fcnt <= Required + Optional + 2) =>
        fres.val = Max(0, Required + Optional - fcnt)

\* C3, for the descriptors with required + optional <= u16::MAX only.
C3_WithinU16 ==
    (fres.kind = "ok" /\ Required + Optional <= U16Max) =>
        fres.val = Max(0, Required + Optional - fcnt)

-----------------------------------------------------------------------------
(* Properties of SubrFn::call (SpecCall).                                  *)

\* call has been invoked
Called == ret.kind # "none"

\* the number of arguments the caller passed
NArgs == VecLen(args0)

\* s is v followed by nils only
NilExtension(v, s) ==
    /\ VecLen(s) >= VecLen(v)
    /\ s = PushN(v, Nil, VecLen(s) - VecLen(v))

\* C4: called with required <= n <= required + optional arguments, call invokes
\* the native function exactly once, on exactly required + optional slots: the
\* n arguments in order, then required + optional - n nils.
C4_FilledToTotal ==
    (Called /\ Required <= NArgs /\ NArgs <= Required + Optional) =>
        /\ invoked = 1
        /\ VecLen(seen) = Required + Optional
        /\ seen = PushN(args0, Nil, Required + Optional - NArgs)

\* C4, for the descriptors with required + optional <= u16::MAX only.
C4_WithinU16 ==
    (Called /\ Required <= NArgs /\ NArgs <= Required + Optional
            /\ Required + Optional <= U16Max) =>
        /\ invoked = 1
        /\ VecLen(seen) = Required + Optional
        /\ seen = PushN(args0, Nil, Required + Optional - NArgs)

\* C5: when the arity check fails (n < required, or n > required + optional
\* with rest false, n the number of arguments), call returns the ArgError as a
\* value, never invokes the native function and leaves the argument vector as
\* it was.
C5_ArityErrorLeavesArgsAlone ==
    (Called /\ (NArgs < Required \/ (~Rest /\ NArgs > Required + Optional))) =>
        /\ ret.kind = "argerror"
        /\ invoked = 0
        /\ args = args0

\* C5, for the vectors of at most u16::MAX arguments only; and an ArgError is
\* never returned after the native function was invoked or a nil was pushed.
C5_WithinU16 ==
    Called =>
        /\ (NArgs <= U16Max
                /\ (NArgs < Required \/ (~Rest /\ NArgs > Required + Optional))) =>
               ret = ArgError(IF NArgs < Required
                              THEN Required ELSE Required + Optional,
                              NArgs, subr.name)
        /\ ret.kind = "argerror" =>
               /\ invoked = 0
               /\ args = args0
               /\ seen = <<>>

\* C6 as claimed: with rest true and n > required + optional arguments the
\* native function observes required + optional positional slots and one more
\* slot holding the list of the others.
C6_RestCollectedIntoList ==
    (Called /\ Rest /\ NArgs > Required + Optional) =>
        /\ invoked = 1
        /\ VecLen(seen) = Required + Optional + 1

\* C6 as amended: with rest true and n > required + optional arguments call
\* builds no list.  Whenever it invokes the native function, that function
\* observes the n arguments unchanged, followed by nils only; and for
\* n <= u16::MAX it is invoked exactly once, on exactly the n arguments.
C6_RestArgsStayPositional ==
    (Called /\ Rest /\ NArgs > Required + Optional) =>
        /\ invoked = 1 => (seen = args /\ NilExtension(args0, seen))
        /\ NArgs <= U16Max => (invoked = 1 /\ seen = args0 /\ args = args0)

C6_Witness ==
    /\ Called /\ Rest /\ NArgs > Required + Optional + 1 /\ NArgs <= MaxArgs
    /\ invoked = 1 /\ VecLen(seen) = NArgs

-----------------------------------------------------------------------------
(* Properties of the tagged-pointer representation (SpecTag).              *)

\* the object a pointer into the arena refers to
HeapAt(p) ==
    IF \E i \in 1..Len(heap) : heap[i].addr = p
    THEN heap[CHOOSE i \in 1..Len(heap) : heap[i].addr = p].obj
    ELSE NoPayload

\* the integer n fits the 56 payload bits: its top byte is the sign extension
\* of the rest
Fits56(n) == n[1] = (IF n[2] >= SignBit THEN AllOnes ELSE 0)

\* C7: for every i64 n, tagging n as an Int and untagging the word yields
\* Int(n).
C7_IntRoundTrip ==
    (src.kind = "int" /\ view.ty \in {"Object", "Number", "Int"}) =>
        (view.variant = "Int" /\ view.ptr = src.int)

\* C7, for the integers of 56 bits only.
C7_Within56Bits ==
    (src.kind = "int" /\ view.ty \in {"Object", "Number", "Int"} /\ Fits56(src.int)) =>
        (view.variant = "Int" /\ view.ptr = src.int)

\* C8: for every tagged value and every view type with a From<view>
\* conversion, converting the projection back yields the same word, without
\* trapping.
C8_RetagIsIdentity ==
    conv.op = "retag" => (conv.kind = "ok" /\ conv.word = val)

\* C8, for the leaf views only.
C8_LeafRetagIsIdentity ==
    (conv.op = "retag" /\ view.ty \in LeafTypes) =>
        (conv.kind = "ok" /\ conv.word = val)

\* C9: the word into_obj returns for a heap payload of kind T has tag T,
\* untag_ptr recovers the address the payload was allocated at, and the
\* projection is the variant T referring to an object equal to the payload.
C9_HeapRoundTrip ==
    src.kind = "heap" =>
        /\ TagOf(val) = src.payload.kind
        /\ UntagPtr(val) = [ptr |-> src.ptr, tag |-> src.payload.kind]
        /\ view.ty = "Object" =>
               /\ view.variant = src.payload.kind
               /\ view.ptr = src.ptr
               /\ HeapAt(view.ptr) = src.payload

C9_Witness ==
    /\ src.kind = "heap" /\ src.payload.kind = "ByteFn" /\ src.payload.args.rest
    /\ src.ptr[3] > 0
    /\ view.ty = "Object" /\ view.variant = "ByteFn"
    /\ HeapAt(view.ptr).constants = src.payload.constants

\* C10: Gc<Number>::try_from succeeds iff the tag is Int or Float, returning
\* the same word; for every other tag it fails with TypeError{expected =
\* Number, actual = the value}.
C10_NumberTryFrom ==
    conv.op = "try_number" =>
        IF TagOf(val) \in {"Int", "Float"}
        THEN conv = OutOk("try_number", "Number", val)
        ELSE conv = OutTypeError("try_number", "Number", val)

C10_Witness ==
    /\ conv.op = "try_number" /\ TagOf(val) = "String"
    /\ conv.kind = "typeerror" /\ conv.actual = val

\* C11: Gc<List>::try_from succeeds iff the value is the canonical nil symbol
\* or has tag Cons, returning the same word; every other value, a non-nil
\* symbol included, fails with TypeError{expected = List, actual = the value}.
\* So a Gc<List> whose projection is Nil is the nil word, and List::untag never
\* reaches its unreachable branch.
C11_ListTryFrom ==
    /\ conv.op = "try_list" =>
           IF val = NilWord \/ TagOf(val) = "Cons"
           THEN conv = OutOk("try_list", "List", val)
           ELSE conv = OutTypeError("try_list", "List", val)
    /\ view.ty = "List" =>
           /\ view.variant \in {"Nil", "Cons"}
           /\ view.variant = "Nil" <=> val = NilWord

C11_Witness ==
    /\ conv.op = "try_list" /\ conv.kind = "typeerror"
    /\ TagOf(val) = "Symbol" /\ val # TrueWord /\ src.kind = "heap"

\* C12: Gc<Function>::try_from succeeds iff the tag is ByteFn, SubrFn, Cons or
\* Symbol, returning the same word; for the tags Int, Float, String, Vec,
\* Record and HashTable it fails with a TypeError carrying the value; and
\* Function::untag of a projected value never reaches its unreachable branch.
C12_FunctionTryFrom ==
    /\ conv.op = "try_function" =>
           IF TagOf(val) \in {"ByteFn", "SubrFn", "Cons", "Symbol"}
           THEN conv = OutOk("try_function", "Function", val)
           ELSE /\ TagOf(val) \in {"Int", "Float", "String", "Vec", "Record", "HashTable"}
                /\ conv = OutTypeError("try_function", "Func", val)
    /\ view.ty = "Function" =>
           /\ view.variant = TagOf(val)
           /\ view.variant \in {"ByteFn", "SubrFn", "Cons", "Symbol"}

C12_Witness ==
    /\ conv.op = "try_function" /\ conv.kind = "ok"
    /\ view.ty = "Function" /\ view.variant = "Symbol" /\ val = TrueWord

\* C13: nil(), false.into_obj, None.into_obj, List::empty() and the Default of
\* RawObj, Gc<Object> and Gc<List> all evaluate to one word; v.nil() is true
\* iff v is that word; qtrue() and true.into_obj evaluate to one other word,
\* for which nil() is false.
C13_NilIsCanonical ==
    /\ src.kind \in NilMakers => val = NilWord
    /\ src.kind \in TrueMakers => (val = TrueWord /\ val # NilWord)
    /\ conv.op = "nil" => (conv.kind = "true" <=> val = NilWord)
    /\ (conv.op = "nil" /\ src.kind \in TrueMakers) => conv.kind = "false"

C13_Witness ==
    /\ src.kind = "false.into_obj" /\ conv.op = "nil" /\ conv.kind = "true"

-----------------------------------------------------------------------------
(* Properties of the collector (SpecGc, SpecGcLive).                       *)

\* the word w refers to an object with a mark bit
HeapRef(w) == TagOf(w) \notin {"Int", "SubrFn"}

\* the addresses the entries of s refer to
RefAddrs(s) == {UntagPtr(s[i]).ptr : i \in {j \in DOMAIN s : HeapRef(s[j])}}

\* the positions of s that refer to the object at a
RefsTo(s, a) == {i \in DOMAIN s : HeapRef(s[i]) /\ UntagPtr(s[i]).ptr = a}

\* the objects of the arena hp reachable from the addresses S
RECURSIVE ReachFrom(_, _)
ReachFrom(S, hp) ==
    LET more == UNION {RefAddrs(Children(hp, a)) : a \in S} \cap ArenaAddrs(hp)
    IN  IF more \subseteq S THEN S ELSE ReachFrom(S \cup more, hp)

\* the objects reachable from the roots when the cycle began
Reachable == ReachFrom(RefAddrs(roots) \cap ArenaAddrs(heap0), heap0)

\* the cdr of the i-th object of the arena hp refers to its j-th object
CdrIs(hp, i, j) ==
    /\ hp[i].obj.kind = "Cons"
    /\ hp[i].obj.constants[2] = FromPtr(hp[j].addr, hp[j].obj.kind)

\* C14: after a collection cycle every object that was reachable from a root
\* is marked and still in the arena, unchanged; every object that was not
\* reachable has left the arena; an object was released once if it has left
\* the arena and never if it has not; and every root refers into the arena.
C14_CollectIsExact ==
    gcpc = "done" =>
        /\ \A a \in ArenaAddrs(heap0) :
               IF a \in Reachable
               THEN /\ a \in marked
                    /\ a \in ArenaAddrs(heap)
                    /\ Children(heap, a) = Children(heap0, a)
               ELSE a \notin ArenaAddrs(heap)
        /\ \A a \in GcAddrs : freed[a] = (IF a \in ArenaAddrs(heap) THEN 0 ELSE 1)
        /\ RefAddrs(roots) \subseteq ArenaAddrs(heap)

C14_Witness ==
    /\ gcpc = "done" /\ roots # <<>>
    /\ Len(heap0) = MaxObjs /\ Len(heap) = 1
    /\ CdrIs(heap, 1, 1)
    /\ \E a \in GcAddrs : freed[a] = 1

\* the work the trace loop has left: the entries of the stack, and for every
\* object or static symbol whose mark bit is clear one more than the number of
\* values it contains
Rank ==
    Len(stack)
    + Cardinality(UNION {{<<a, i>> : i \in 0..Len(Children(heap, a))} :
                            a \in (GcAddrs \cup {NilAddr, TrueAddr}) \ marked})

\* C15: the trace phase terminates, on cyclic graphs too: every step of the
\* trace loop makes the natural number Rank smaller, so the trace stack is
\* empty after at most Rank steps.
C15_TraceTerminates ==
    [][(gcpc = "trace" /\ stack # <<>>) => Rank' < Rank]_vars

\* C15 as a liveness property of the collector that keeps stepping
\* (SpecGcLive): once tracing has begun, the trace stack eventually is empty.
C15_StackEventuallyEmpty == (gcpc = "trace") ~> (stack = <<>>)

C15_Witness ==
    /\ gcpc = "done" /\ stack = <<>> /\ roots # <<>>
    /\ Len(heap0) >= 2 /\ Len(heap) = Len(heap0)
    /\ CdrIs(heap0, 1, 2) /\ CdrIs(heap0, 2, 1)
    /\ \A a \in {heap0[1].addr, heap0[2].addr} : a \in marked /\ visits[a] = 1

\* C16 as claimed: during a cycle every object is pushed on the trace stack at
\* most once and is visited at most once (stated for the objects that at most
\* one root slot holds).
C16_PushedAtMostOnce ==
    \A a \in GcAddrs :
        Cardinality(RefsTo(roots, a)) <= 1 => (pushes[a] <= 1 /\ visits[a] <= 1)

\* C16 as amended: during a cycle every object is visited at most once; it is
\* pushed once for every root slot that holds it and once for every reference
\* to it from a visited object.
C16_VisitedAtMostOnce ==
    gcpc \in {"trace", "done"} =>
        \A a \in GcAddrs :
            /\ visits[a] <= 1
            /\ pushes[a] = Cardinality(RefsTo(roots, a))
                  + Cardinality(UNION {{<<b, i>> : i \in RefsTo(Children(heap0, b), a)} :
                                          b \in {c \in GcAddrs : visits[c] >= 1}})

C16_Witness ==
    /\ gcpc = "done"
    /\ \E a \in GcAddrs : pushes[a] >= 2 /\ visits[a] = 1 /\ RefsTo(roots, a) = {}

-----------------------------------------------------------------------------
(* Properties of the collector interface (SpecMark).                       *)

\* C20: for every value with tag Int or SubrFn is_markable is false, is_marked
\* is true, and trace_mark pushes nothing on the stack and changes no mark
\* bit; for every value with any other tag is_markable is true.
C20_IntAndSubrShortCircuit ==
    /\ [](/\ conv.op = "is_markable" =>
                (conv.kind = "false" <=> TagOf(val) \in {"Int", "SubrFn"})
          /\ (conv.op = "is_marked" /\ TagOf(val) \in {"Int", "SubrFn"}) =>
                conv.kind = "true")
    /\ [][(conv'.op = "trace_mark" /\ TagOf(val) \in {"Int", "SubrFn"}) =>
              (stack' = stack /\ marked' = marked)]_vars

C20_Witness ==
    /\ conv.op = "trace_mark" /\ TagOf(val) = "Int"
    /\ UntagPtr(val).ptr \in ArenaAddrs(heap)
    /\ stack # <<>> /\ marked = {}

-----------------------------------------------------------------------------
(* Properties of the runner (SpecRun).                                     *)

\* s is 0, 1, 2, ... in order
Counting(s) == \A i \in DOMAIN s : s[i] = i - 1

\* C17: master_count starts at 0 and is the number of test cases whose two
\* responses were read; a response is accepted only with the counter
\* master_count, so the counters accepted on each channel are 0, 1, 2, ... in
\* order; and a mismatching counter aborts the run.
C17_CounterProtocol ==
    /\ master = Len(accR)
    /\ Counting(accE)
    /\ Counting(accR)
    /\ mism => rpc = "aborted"

\* C17, without the abort: what holds also when the panic of a test case is
\* caught by the test runner.
C17_AcceptedMatchMaster ==
    /\ master = Len(accR)
    /\ Counting(accR)
    /\ \A i \in DOMAIN accE : accE[i] <= master
    /\ \A i \in DOMAIN accE : i > 1 => accE[i - 1] <= accE[i] /\ accE[i] <= accE[i - 1] + 1
    /\ unwind = "abort" => (Counting(accE) /\ (mism => rpc = "aborted"))

-----------------------------------------------------------------------------
(* Properties of upcase (SpecCase).                                        *)

\* upcase has been applied
Upcased == ures # NoStr

\* the number of characters a character of the argument becomes in the result
ImageLen(c) == IF c \in {223, 92, 34} THEN 2 ELSE 1

RECURSIVE ImagesLen(_)
ImagesLen(s) == IF s = <<>> THEN 0 ELSE ImageLen(Head(s)) + ImagesLen(Tail(s))

AllGaray(s) == \A i \in DOMAIN s : IsGaray(s[i])

\* C18 as claimed: every character of the Garay block is at its position of
\* the argument in the result too, and a string of such characters only is
\* returned unchanged.
C18_GarayKeepsPosition ==
    Upcased =>
        /\ \A i \in DOMAIN ustr :
               IsGaray(ustr[i]) => (i <= Len(ures) /\ ures[i] = ustr[i])
        /\ AllGaray(ustr) => ures = ustr

\* C18 as amended: every character of the Garay block is in the result
\* unchanged, right after the images of the characters before it (a character
\* outside the block may become two: sharp s, backslash, double quote), and a
\* string of such characters only is returned unchanged.
C18_GarayUnchanged ==
    Upcased =>
        /\ Len(ures) = ImagesLen(ustr)
        /\ \A i \in DOMAIN ustr :
               IsGaray(ustr[i]) => ures[ImagesLen(SubSeq(ustr, 1, i - 1)) + 1] = ustr[i]
        /\ AllGaray(ustr) => ures = ustr

C18_Witness ==
    /\ Upcased /\ Len(ustr) = 2
    /\ ustr[1] = 223 /\ ustr[2] = 68976
    /\ ures = <<83, 83, 68976>>

-----------------------------------------------------------------------------
(* The invariant of the arity descriptor (SpecArity).                      *)

\* C19: every descriptor num_of_fill_args is applied to has
\* required + optional <= u16::MAX, so that the sum neither overflows nor
\* wraps.
C19_TotalWithinU16 ==
    Filled => (Required + Optional <= U16Max /\ fres.kind # "panic")

-----------------------------------------------------------------------------
(* The argument count of SubrFn::call (SpecCall).                          *)

\* C24: the count call passes to num_of_fill_args is the length of the
\* argument vector, for every length: the conversion to u16 never truncates,
\* and an arity error reports the true number of arguments.
C24_CountIsLength ==
    Called =>
        /\ ArgCnt(args0) = NArgs
        /\ ret.kind = "argerror" => ret.actual = NArgs

\* C24, for the vectors of at most u16::MAX arguments only.
C24_WithinU16 ==
    (Called /\ NArgs <= U16Max) =>
        /\ ArgCnt(args0) = NArgs
        /\ ret.kind = "argerror" => ret.actual = NArgs

-----------------------------------------------------------------------------
(* Properties of equality and hashing (SpecEq).                            *)

Compared == eqres # "none"

Unimplemented == {"ByteFn", "Record", "HashTable"}

\* the function pointer of the SubrFn a word refers to
SubrPtr(w) == SubrAt(UntagPtr(w).ptr).subr

C22_HashConsistent ==
    (eqres = "true" /\ lhash # NoHash) => lhash = rhash

\* C22, for one word only: a value hashes as itself.
C22_SameWordSameHash ==
    (lhash # NoHash /\ lhs = rhs) => lhash = rhash

-----------------------------------------------------------------------------
(* Properties of process_eval_result (SpecPer, SpecPerLive).               *)

RECURSIVE Concat(_)
Concat(ls) == IF ls = <<>> THEN <<>> ELSE Head(ls) \o Concat(Tail(ls))

MasterDigit == CHOOSE c \in Digits : DigitVal(c) = mcount

\* the reader begins with a well-framed response: the START line of the
\* expected counter, lines of a body, the END line
WellFramed ==
    /\ Len(reader) >= 2
    /\ reader[1] = StartLine(MasterDigit)
    /\ \E i \in 2..Len(reader) : reader[i] = EndLine

\* the number of lines of that frame, and its body
FrameLen ==
    CHOOSE i \in 2..Len(reader) :
        reader[i] = EndLine /\ \A j \in 2..(i - 1) : reader[j] # EndLine

FrameBody == Trim(Concat(SubSeq(reader, 2, FrameLen - 1)))

Returned == perpc = "done"

Finished == perpc \in {"done", "panic"}

\* C23: on a well-framed response process_eval_result terminates, returns the
\* trimmed body and has read exactly the lines of that frame; and it
\* terminates as well when the reader ends before an END line.
C23_Framing ==
    /\ [](WellFramed => (consumed <= FrameLen
                          /\ (Returned => (body = FrameBody /\ consumed = FrameLen))))
    /\ <>Finished

\* C23, for the frames whose body has at least one line, on a reader that
\* holds the whole frame.
C23_BodiedFrames ==
    (WellFramed /\ FrameLen > 2) =>
        /\ consumed <= FrameLen
        /\ ~eofreads
        /\ Returned => (body = FrameBody /\ consumed = FrameLen)

\* C23, termination for those frames.
C23_BodiedFramesReturn == (WellFramed /\ FrameLen > 2) => <>Returned

====
